---- MODULE Spec2Model ----
(***************************************************************************)
(* BankTransferAPI (src/api/BankTransferAPI.js): the routing cache filled  *)
(* by fetchIFSCs, and the transfer saga of transferMoney (validate, debit, *)
(* credit, roll back, record), with every awaited store call a step at     *)
(* which other pending calls may settle.                                   *)
(***************************************************************************)
EXTENDS Integers, Sequences, FiniteSets, Bags, TLC

(* ------------------------------ bounds -------------------------------- *)
\* largest amount a request carries
MaxAmount == 2
\* balance every account record starts with
InitBal == 1
\* calls of fetchIFSCs and transferMoney the caller makes one after the other
MaxCalls == 2

(* --------------------------- configuration ---------------------------- *)
\* constructor arguments: the sender store is also the first receiver store
senderApi == "bankA"
receiverApiBaseUrls == <<"bankA", "bankB">>
ReceiverStores == {receiverApiBaseUrls[i] : i \in DOMAIN receiverApiBaseUrls}
Stores == {senderApi} \cup ReceiverStores

Accts == {"a1", "a2"}
Ifscs == {"I1", "I2"}
\* the value the code substitutes for a missing ifsc_code or name
Unknown == "unknown"
\* a field that a Firestore document does not carry
Missing == "missing"
\* the transfers the caller may have in flight
Procs == {1, 2}

(* ------------------------- store documents ---------------------------- *)
ProfileDoc(a, i, n) == [acct_number |-> a, ifsc_code |-> i, name |-> n]

\* the lite_profile collections the receiver stores may hold
Directories ==
  { [bankA |-> <<ProfileDoc("a1", "I1", "n1")>>,
     bankB |-> <<ProfileDoc("a2", "I2", "n2")>>],
    \* both stores use one routing code
    [bankA |-> <<ProfileDoc("a1", "I1", "n1")>>,
     bankB |-> <<ProfileDoc("a2", "I1", "n2")>>],
    \* both stores list account a1
    [bankA |-> <<ProfileDoc("a1", "I1", "n1")>>,
     bankB |-> <<ProfileDoc("a1", "I2", "n1"), ProfileDoc("a2", "I2", "n2")>>],
    \* documents without ifsc_code, name or acct_number
    [bankA |-> <<ProfileDoc("a1", Missing, Missing)>>,
     bankB |-> <<ProfileDoc(Missing, "I2", "n2"), ProfileDoc("a2", "I2", "n2")>>] }

AccountDoc(a, bal, st) ==
  [acct_number |-> a, acct_bal |-> bal, acct_status |-> st, cust_id |-> a,
   acct_name |-> a]

AcctStatus == {"active", "inactive"}

\* the bank_account collections: the sender store holds a1, the second
\* store holds a1 and a2 (account numbers are unique within a store only)
Ledgers ==
  { [bankA |-> ("dA1" :> AccountDoc("a1", InitBal, s1)),
     bankB |-> ("dB1" :> AccountDoc("a1", InitBal, "active")
                @@ "dB2" :> AccountDoc("a2", InitBal, s2))]
    : s1 \in AcctStatus, s2 \in AcctStatus }

(* ------------------------------ state --------------------------------- *)
VARIABLES
  lite_profile,         \* store -> sequence of directory documents
  bank_account,         \* store -> (document id -> account document)
  transaction_history,  \* store -> bag of transfer records
  ifscCache,            \* this.ifscCache: account number -> profile
  apiByIfsc,            \* this.apiByIfsc: routing code -> store
  fetchPromises,        \* fetchIFSCs: store -> state of its directory fetch
  fetching,             \* a call of fetchIFSCs has not returned yet
  cachedFrom,           \* account number -> store whose answer cached it
  preFetch,             \* the cache when the running fetchIFSCs was called
  made,                 \* calls the caller has made one after the other
  xfer,                 \* proc -> the frame of its transferMoney call
  pre,                  \* proc -> the stores and cache when its call began
  issued                \* proc -> the PATCH requests of its call, in order

vars == <<lite_profile, bank_account, transaction_history, ifscCache,
          apiByIfsc, fetchPromises, fetching, cachedFrom, preFetch, made,
          xfer, pre, issued>>

stores == <<lite_profile, bank_account, transaction_history>>
cache == <<ifscCache, apiByIfsc>>
refresh == <<fetchPromises, fetching, cachedFrom, preFetch>>
frames == <<xfer, pre, issued>>

\* the frame of a transferMoney call that has not been made
IdleFrame ==
  [pc |-> "idle", senderAcct |-> "", senderIfsc |-> "", receiverAcct |-> "",
   receiverIfsc |-> "", amount |-> 0, url |-> "", docId |-> "",
   currentBalance |-> 0, newBalance |-> 0, senderUpdated |-> "unset",
   receiverUpdated |-> "unset", rolledBack |-> "unset",
   posts |-> [s \in ReceiverStores |-> "none"], log |-> "", result |-> ""]

EmptyMap == <<>>

\* no call of fetchIFSCs is running
NoFetch == [ifscCache |-> EmptyMap, cachedFrom |-> EmptyMap]

\* what the stores and the cache hold at the moment a call is made
Snapshot ==
  [bank_account |-> bank_account, transaction_history |-> transaction_history,
   ifscCache |-> ifscCache, apiByIfsc |-> apiByIfsc]

Init ==
  /\ lite_profile \in Directories
  /\ bank_account \in Ledgers
  /\ transaction_history = [s \in Stores |-> EmptyBag]
  /\ ifscCache = EmptyMap
  /\ apiByIfsc = EmptyMap
  /\ fetchPromises = [s \in ReceiverStores |-> "none"]
  /\ fetching = FALSE
  /\ cachedFrom = EmptyMap
  /\ preFetch = NoFetch
  /\ made = 0
  /\ xfer = [t \in Procs |-> IdleFrame]
  /\ pre = [t \in Procs |-> Snapshot]
  /\ issued = [t \in Procs |-> <<>>]


(* --------------------------- fetchIFSCs ------------------------------- *)
\* as MapSet, but a key that is present keeps its value
MapSet_KeepFirst(m, k, v) == m @@ (k :> v)

\* Map.prototype.set
MapSet(m, k, v) == (k :> v) @@ m

\* doc.fields?.acct_number?.stringValue || integerValue?.toString()
AcctNumberOf(doc) == doc.acct_number

IfscOf(doc) == IF doc.ifsc_code = Missing THEN Unknown ELSE doc.ifsc_code

NameOf(doc) == IF doc.name = Missing THEN Unknown ELSE doc.name

\* as CacheAfter, but the response replaces the cache
CacheAfter_Replace(c, docs, n) ==
  [a \in {AcctNumberOf(docs[i]) : i \in 1..n} \ {Missing} |->
     LET i == CHOOSE i \in 1..n :
                /\ AcctNumberOf(docs[i]) = a
                /\ \A j \in 1..n : AcctNumberOf(docs[j]) = a => j <= i
     IN [ifscCode |-> IfscOf(docs[i]), name |-> NameOf(docs[i])]]

\* as ApiAfter, but a document without ifsc_code maps no store
ApiAfter_KnownOnly(m, docs, n, baseUrl) ==
  [c \in {docs[i].ifsc_code : i \in {j \in 1..n : AcctNumberOf(docs[j]) # Missing}}
           \ {Missing} |-> baseUrl] @@ m

\* documents.forEach(...) over the first n documents of a response
RECURSIVE CacheAfter(_, _, _)
CacheAfter(c, docs, n) ==
  IF n = 0 THEN c
  ELSE LET c0 == CacheAfter(c, docs, n - 1)
           doc == docs[n]
       IN IF AcctNumberOf(doc) # Missing
          THEN MapSet(c0, AcctNumberOf(doc),
                      [ifscCode |-> IfscOf(doc), name |-> NameOf(doc)])
          ELSE c0

RECURSIVE ApiAfter(_, _, _, _)
ApiAfter(m, docs, n, baseUrl) ==
  IF n = 0 THEN m
  ELSE LET m0 == ApiAfter(m, docs, n - 1, baseUrl)
           doc == docs[n]
       IN IF AcctNumberOf(doc) # Missing
          THEN MapSet(m0, IfscOf(doc), baseUrl)
          ELSE m0

NoTransferRunning == \A t \in Procs : xfer[t].pc \in {"idle", "done"}

\* fetchIFSCs is called: one GET per receiver store is issued
FetchIFSCs ==
  /\ made < MaxCalls
  /\ ~fetching
  /\ NoTransferRunning
  /\ fetching' = TRUE
  /\ made' = made + 1
  /\ fetchPromises' = [s \in ReceiverStores |-> "pending"]
  /\ preFetch' = [ifscCache |-> ifscCache, cachedFrom |-> cachedFrom]
  /\ UNCHANGED <<stores, cache, cachedFrom, frames>>

\* the GET of baseUrl/lite_profile answers: its documents are cached
FetchFulfilled(baseUrl) ==
  /\ fetchPromises[baseUrl] = "pending"
  /\ LET documents == lite_profile[baseUrl]
     IN /\ ifscCache' = CacheAfter(ifscCache, documents, Len(documents))
        /\ apiByIfsc' = ApiAfter(apiByIfsc, documents, Len(documents), baseUrl)
        /\ cachedFrom' =
             [a \in DOMAIN cachedFrom
                     \cup ({AcctNumberOf(documents[i]) : i \in DOMAIN documents}
                             \ {Missing}) |->
                IF \E i \in DOMAIN documents : AcctNumberOf(documents[i]) = a
                THEN baseUrl ELSE cachedFrom[a]]
  /\ fetchPromises' = [fetchPromises EXCEPT ![baseUrl] = "fulfilled"]
  /\ UNCHANGED <<stores, fetching, preFetch, made, frames>>

\* as FetchRejected, but the failure empties the cache
FetchRejected_Clears(baseUrl) ==
  /\ fetchPromises[baseUrl] = "pending"
  /\ fetchPromises' = [fetchPromises EXCEPT ![baseUrl] = "caught"]
  /\ ifscCache' = EmptyMap
  /\ UNCHANGED <<stores, apiByIfsc, fetching, cachedFrom, preFetch, made,
                 frames>>

\* the GET fails: the catch block logs and the store is skipped
FetchRejected(baseUrl) ==
  /\ fetchPromises[baseUrl] = "pending"
  /\ fetchPromises' = [fetchPromises EXCEPT ![baseUrl] = "caught"]
  /\ UNCHANGED <<stores, cache, fetching, cachedFrom, preFetch, made, frames>>

\* as AllSettled, but one settled promise is enough
AllSettled_Any(promises) == \E s \in DOMAIN promises : promises[s] # "pending"

\* await Promise.all(...) resumes: every promise has settled
AllSettled(promises) == \A s \in DOMAIN promises : promises[s] # "pending"

\* await Promise.all(fetchPromises) resumes and fetchIFSCs returns; the
\* array of promises is local to the call
FetchIFSCsReturns ==
  /\ fetching
  /\ AllSettled(fetchPromises)
  /\ fetching' = FALSE
  /\ fetchPromises' = [s \in ReceiverStores |-> "none"]
  /\ preFetch' = NoFetch
  /\ UNCHANGED <<stores, cache, cachedFrom, made, frames>>

\* between two calls a receiver store drops the last document of its
\* directory: the next GET of its lite_profile no longer returns it
DirectoryShrinks(baseUrl) ==
  /\ ~fetching
  /\ NoTransferRunning
  /\ Len(lite_profile[baseUrl]) > 0
  /\ lite_profile' =
       [lite_profile EXCEPT ![baseUrl] = SubSeq(@, 1, Len(@) - 1)]
  /\ UNCHANGED <<bank_account, transaction_history, cache, refresh, made,
                 frames>>

(* --------------------- console.log of transferMoney ------------------- *)
LogSenderNotFound == "Transfer aborted: Sender account not found in bank_account."
LogSenderIfsc == "Transfer aborted: Sender IFSC validation failed in lite_profile."
LogReceiverNotFound == "Transfer aborted: Receiver account not found in bank_account."
LogReceiverIfsc == "Transfer aborted: Receiver IFSC validation failed in lite_profile."
LogDebitFailed == "Transfer aborted: Unable to deduct sender's balance."
LogRolledBack == "Transfer aborted: Unable to update receiver's balance. Rolled back sender's balance."
LogSuccessful == "Transfer successful"

ValidationLogs ==
  {LogSenderNotFound, LogSenderIfsc, LogReceiverNotFound, LogReceiverIfsc}

(* ----------------- fetchDocument, validateBankAccount ----------------- *)
\* the documents of url/bank_account, or [] when the GET fails
fetchDocument(url, ok) == IF ok THEN bank_account[url] ELSE EmptyMap

\* accounts.find(doc => docAcctNumber === acct_number), as the matching ids
FindAccount(accounts, acct_number) ==
  {d \in DOMAIN accounts : accounts[d].acct_number = acct_number}

NoUrl == ""

\* the store of a receiver account: ifscCache, then apiByIfsc
ReceiverUrl(acct_number) ==
  IF acct_number \notin DOMAIN ifscCache THEN NoUrl
  ELSE IF ifscCache[acct_number].ifscCode \notin DOMAIN apiByIfsc THEN NoUrl
  ELSE apiByIfsc[ifscCache[acct_number].ifscCode]

\* as IfscCheckFails, but any cached profile passes
IfscCheckFails_PresenceOnly(acct_number, ifsc) ==
  acct_number \notin DOMAIN ifscCache

\* const profile = this.ifscCache.get(acct); !profile || profile.ifscCode !== ifsc
IfscCheckFails(acct_number, ifsc) ==
  \/ acct_number \notin DOMAIN ifscCache
  \/ ifscCache[acct_number].ifscCode # ifsc

\* transferMoney logs and returns (it returns no value on any path)
Return(f, message) ==
  [f EXCEPT !.pc = "done", !.log = message, !.result = "undefined"]

(* ------------------------ steps of transferMoney ---------------------- *)
DebitAmount_Pos(f) == f.amount
RollbackAmount_Neg(f) == -f.amount

\* as CreditAmount, but nothing is added
CreditAmount_Zero(f) == 0

\* the second argument of the three updateBankAccount calls
DebitAmount(f) == -f.amount
CreditAmount(f) == f.amount
RollbackAmount(f) == f.amount

\* updateBankAccount(senderAcct, -amount, true) is called: its GET is issued
BeginDebit(f) == [f EXCEPT !.pc = "debitGet", !.url = senderApi]

\* as AfterRollback, but transferMoney is not resumed after the rollback
AfterRollback_Hangs(f, updated) ==
  [f EXCEPT !.rolledBack = updated, !.pc = "rolledBack"]

\* the rollback's result is not looked at: transferMoney logs and returns
AfterRollback(f, updated) ==
  Return([f EXCEPT !.rolledBack = updated], LogRolledBack)

\* updateBankAccount(senderAcct, amount, true) is called after a failed credit
BeginRollback(f) == [f EXCEPT !.pc = "rollbackGet", !.url = senderApi]

\* createTransaction is called: one POST per receiver store is issued
BeginRecording(f) ==
  [f EXCEPT !.pc = "recording",
            !.posts = [s \in ReceiverStores |-> "pending"]]

\* as AfterCredit, but a failed credit is attempted again
AfterCredit_Retries(f, updated) ==
  IF updated = "true"
  THEN BeginRecording([f EXCEPT !.receiverUpdated = updated])
  ELSE [f EXCEPT !.pc = "creditGet"]

\* as AfterCredit, but a failed credit is recorded like a successful one
AfterCredit_Records(f, updated) ==
  BeginRecording([f EXCEPT !.receiverUpdated = updated])

\* const receiverUpdated = await ...; if (!receiverUpdated) roll back
AfterCredit(f, updated) ==
  IF updated = "true"
  THEN BeginRecording([f EXCEPT !.receiverUpdated = updated])
  ELSE BeginRollback([f EXCEPT !.receiverUpdated = updated])

\* updateBankAccount(receiverAcct, amount, false) is called
BeginCredit(f) ==
  IF ReceiverUrl(f.receiverAcct) = NoUrl THEN AfterCredit(f, "false")
  ELSE [f EXCEPT !.pc = "creditGet", !.url = ReceiverUrl(f.receiverAcct)]

\* as AfterDebit, but the result of the debit is not looked at
AfterDebit_Unchecked(f, updated) ==
  BeginCredit([f EXCEPT !.senderUpdated = updated])

\* const senderUpdated = await ...; if (!senderUpdated) return
AfterDebit(f, updated) ==
  IF updated = "true"
  THEN BeginCredit([f EXCEPT !.senderUpdated = updated])
  ELSE Return([f EXCEPT !.senderUpdated = updated], LogDebitFailed)

\* validateBankAccount(receiverAcct, false) up to its GET
BeginReceiverValidation(f) ==
  IF ReceiverUrl(f.receiverAcct) = NoUrl THEN Return(f, LogReceiverNotFound)
  ELSE [f EXCEPT !.pc = "validateReceiver", !.url = ReceiverUrl(f.receiverAcct)]

\* transferMoney from the answer of the sender's GET to the next await
AfterSenderValidation(f, accounts) ==
  IF FindAccount(accounts, f.senderAcct) = {} THEN Return(f, LogSenderNotFound)
  ELSE IF IfscCheckFails(f.senderAcct, f.senderIfsc) THEN Return(f, LogSenderIfsc)
  ELSE BeginReceiverValidation(f)

\* as AfterReceiverValidation, but the receiver is credited first
AfterReceiverValidation_CreditFirst(f, accounts) ==
  IF FindAccount(accounts, f.receiverAcct) = {} THEN Return(f, LogReceiverNotFound)
  ELSE IF IfscCheckFails(f.receiverAcct, f.receiverIfsc) THEN Return(f, LogReceiverIfsc)
  ELSE BeginCredit(f)

\* as AfterReceiverValidation, but the account is not looked up
AfterReceiverValidation_Found(f, accounts) ==
  IF IfscCheckFails(f.receiverAcct, f.receiverIfsc) THEN Return(f, LogReceiverIfsc)
  ELSE BeginDebit(f)

\* transferMoney from the answer of the receiver's GET to the next await
AfterReceiverValidation(f, accounts) ==
  IF FindAccount(accounts, f.receiverAcct) = {} THEN Return(f, LogReceiverNotFound)
  ELSE IF IfscCheckFails(f.receiverAcct, f.receiverIfsc) THEN Return(f, LogReceiverIfsc)
  ELSE BeginDebit(f)

\* as NewBalance, but the amount replaces the balance
NewBalance_Abs(currentBalance, amount) == amount

\* parseInt(account.fields.acct_bal.integerValue) + amount
NewBalance(currentBalance, amount) == currentBalance + amount

\* const payload = {fields: {acct_bal: {integerValue: newBalance.toString()}}}
Payload(newBalance) == [acct_bal |-> newBalance]

\* params: {'updateMask.fieldPaths': 'acct_bal'}
UpdateMask == {"acct_bal"}

\* as PatchDoc, but without an update mask: the payload replaces the document
PatchDoc_NoMask(doc, payload, mask) ==
  [k \in DOMAIN doc |-> IF k \in DOMAIN payload THEN payload[k] ELSE Missing]

\* the store applies a PATCH: the fields of the mask take the payload's
\* values, the other fields of the document stay
PatchDoc(doc, payload, mask) ==
  [k \in DOMAIN doc |->
     IF k \in mask
     THEN (IF k \in DOMAIN payload THEN payload[k] ELSE Missing)
     ELSE doc[k]]

\* axios.patch(updateUrl, payload, {params}) is applied
Patched(collections, url, docId, newBalance) ==
  [collections EXCEPT
     ![url][docId] = PatchDoc(@, Payload(newBalance), UpdateMask)]

\* as AfterGet, but the first document of the collection is updated when
\* the account is found
AfterGet_AnyDoc(f, accounts, acct_number, amount, patchPc, notFound) ==
  IF FindAccount(accounts, acct_number) = {} THEN notFound
  ELSE LET d == CHOOSE d \in DOMAIN accounts : TRUE
       IN [f EXCEPT !.pc = patchPc, !.docId = d,
                    !.currentBalance = accounts[d].acct_bal,
                    !.newBalance = NewBalance(accounts[d].acct_bal, amount)]

\* updateBankAccount after its GET: the account is looked up and, when it is
\* found, the new balance is computed and its PATCH is issued
AfterGet(f, accounts, acct_number, amount, patchPc, notFound) ==
  IF FindAccount(accounts, acct_number) = {} THEN notFound
  ELSE LET d == CHOOSE d \in FindAccount(accounts, acct_number) : TRUE
       IN [f EXCEPT !.pc = patchPc, !.docId = d,
                    !.currentBalance = accounts[d].acct_bal,
                    !.newBalance = NewBalance(accounts[d].acct_bal, amount)]

\* the PATCH requests of a call: which update, which document, how it ended
PatchOf(kind, f) ==
  [kind |-> kind, url |-> f.url, docId |-> f.docId, read |-> f.currentBalance,
   written |-> f.newBalance, status |-> "pending"]

Issue(t, f, kind, patchPc) ==
  issued' = [issued EXCEPT ![t] =
               IF f.pc = patchPc THEN Append(@, PatchOf(kind, f)) ELSE @]

Settle(t, status) ==
  issued' = [issued EXCEPT ![t][Len(issued[t])].status = status]

\* transferMoney(senderAcct, senderIfsc, receiverAcct, receiverIfsc, amount)
\* is called: validateBankAccount(senderAcct, true) issues its GET
Call(t, senderAcct, senderIfsc, receiverAcct, receiverIfsc, amount) ==
  /\ xfer[t].pc \in {"idle", "done"}
  /\ ~fetching
  /\ xfer' = [xfer EXCEPT ![t] =
       [IdleFrame EXCEPT !.pc = "validateSender", !.senderAcct = senderAcct,
          !.senderIfsc = senderIfsc, !.receiverAcct = receiverAcct,
          !.receiverIfsc = receiverIfsc, !.amount = amount, !.url = senderApi]]
  /\ pre' = [pre EXCEPT ![t] = Snapshot]
  /\ issued' = [issued EXCEPT ![t] = <<>>]
  /\ UNCHANGED <<stores, cache, refresh>>

\* the caller awaits transferMoney: its calls run one after the other
TransferMoney(senderAcct, senderIfsc, receiverAcct, receiverIfsc, amount) ==
  /\ made < MaxCalls
  /\ NoTransferRunning
  /\ made' = made + 1
  /\ Call(1, senderAcct, senderIfsc, receiverAcct, receiverIfsc, amount)

\* the caller ends with a call of transferMoney that it does not await
TransferMoneyFirst(senderAcct, senderIfsc, receiverAcct, receiverIfsc, amount) ==
  /\ made < MaxCalls
  /\ xfer[1].pc = "idle"
  /\ made' = MaxCalls
  /\ Call(1, senderAcct, senderIfsc, receiverAcct, receiverIfsc, amount)

\* and starts a second transfer of the same sender while the first is in
\* flight
TransferMoneyOverlapping(receiverAcct, receiverIfsc, amount) ==
  /\ xfer[1].pc \notin {"idle", "done"}
  /\ xfer[2].pc = "idle"
  /\ UNCHANGED made
  /\ Call(2, xfer[1].senderAcct, xfer[1].senderIfsc, receiverAcct,
          receiverIfsc, amount)

\* the GET of validateBankAccount(senderAcct, true) answers or fails
SenderValidated(t) ==
  /\ xfer[t].pc = "validateSender"
  /\ \E ok \in BOOLEAN :
       xfer' = [xfer EXCEPT ![t] =
                  AfterSenderValidation(@, fetchDocument(senderApi, ok))]
  /\ UNCHANGED <<stores, cache, refresh, made, pre, issued>>

\* the GET of validateBankAccount(receiverAcct, false) answers or fails
ReceiverValidated(t) ==
  /\ xfer[t].pc = "validateReceiver"
  /\ \E ok \in BOOLEAN :
       xfer' = [xfer EXCEPT ![t] =
                  AfterReceiverValidation(@, fetchDocument(@.url, ok))]
  /\ UNCHANGED <<stores, cache, refresh, made, pre, issued>>

\* the GET of the debit answers or fails
DebitGet(t) ==
  /\ xfer[t].pc = "debitGet"
  /\ \E ok \in BOOLEAN :
       LET f == AfterGet(xfer[t], fetchDocument(xfer[t].url, ok),
                         xfer[t].senderAcct, DebitAmount(xfer[t]),
                         "debitPatch", AfterDebit(xfer[t], "false"))
       IN /\ xfer' = [xfer EXCEPT ![t] = f]
          /\ Issue(t, f, "debit", "debitPatch")
  /\ UNCHANGED <<stores, cache, refresh, made, pre>>

\* the PATCH of the debit is applied or fails
DebitPatch(t) ==
  /\ xfer[t].pc = "debitPatch"
  /\ \/ /\ bank_account' = Patched(bank_account, xfer[t].url, xfer[t].docId,
                                   xfer[t].newBalance)
        /\ xfer' = [xfer EXCEPT ![t] = AfterDebit(@, "true")]
        /\ Settle(t, "ok")
     \/ /\ xfer' = [xfer EXCEPT ![t] = AfterDebit(@, "false")]
        /\ Settle(t, "failed")
        /\ UNCHANGED bank_account
  /\ UNCHANGED <<lite_profile, transaction_history, cache, refresh, made,
                 pre>>

\* the GET of the credit answers or fails
CreditGet(t) ==
  /\ xfer[t].pc = "creditGet"
  /\ \E ok \in BOOLEAN :
       LET f == AfterGet(xfer[t], fetchDocument(xfer[t].url, ok),
                         xfer[t].receiverAcct, CreditAmount(xfer[t]),
                         "creditPatch", AfterCredit(xfer[t], "false"))
       IN /\ xfer' = [xfer EXCEPT ![t] = f]
          /\ Issue(t, f, "credit", "creditPatch")
  /\ UNCHANGED <<stores, cache, refresh, made, pre>>

\* the PATCH of the credit is applied or fails
CreditPatch(t) ==
  /\ xfer[t].pc = "creditPatch"
  /\ \/ /\ bank_account' = Patched(bank_account, xfer[t].url, xfer[t].docId,
                                   xfer[t].newBalance)
        /\ xfer' = [xfer EXCEPT ![t] = AfterCredit(@, "true")]
        /\ Settle(t, "ok")
     \/ /\ xfer' = [xfer EXCEPT ![t] = AfterCredit(@, "false")]
        /\ Settle(t, "failed")
        /\ UNCHANGED bank_account
  /\ UNCHANGED <<lite_profile, transaction_history, cache, refresh, made,
                 pre>>

\* the GET of the rollback answers or fails
RollbackGet(t) ==
  /\ xfer[t].pc = "rollbackGet"
  /\ \E ok \in BOOLEAN :
       LET f == AfterGet(xfer[t], fetchDocument(xfer[t].url, ok),
                         xfer[t].senderAcct, RollbackAmount(xfer[t]),
                         "rollbackPatch", AfterRollback(xfer[t], "false"))
       IN /\ xfer' = [xfer EXCEPT ![t] = f]
          /\ Issue(t, f, "rollback", "rollbackPatch")
  /\ UNCHANGED <<stores, cache, refresh, made, pre>>

\* the PATCH of the rollback is applied or fails
RollbackPatch(t) ==
  /\ xfer[t].pc = "rollbackPatch"
  /\ \/ /\ bank_account' = Patched(bank_account, xfer[t].url, xfer[t].docId,
                                   xfer[t].newBalance)
        /\ xfer' = [xfer EXCEPT ![t] = AfterRollback(@, "true")]
        /\ Settle(t, "ok")
     \/ /\ xfer' = [xfer EXCEPT ![t] = AfterRollback(@, "false")]
        /\ Settle(t, "failed")
        /\ UNCHANGED bank_account
  /\ UNCHANGED <<lite_profile, transaction_history, cache, refresh, made,
                 pre>>

TransactionData(f) ==
  [sender_account |-> f.senderAcct, receiver_account |-> f.receiverAcct,
   amount |-> f.amount]

\* as AfterPost, but a failed POST undoes the transfer
AfterPost_Throws(f, baseUrl, ok) ==
  IF ok THEN [f EXCEPT !.posts[baseUrl] = "recorded"] ELSE BeginRollback(f)

\* createTransaction after one POST: its failure is caught and logged
AfterPost(f, baseUrl, ok) ==
  [f EXCEPT !.posts[baseUrl] = IF ok THEN "recorded" ELSE "caught"]

\* the POST to baseUrl/transaction_history is applied or fails
PostSettles(t, baseUrl) ==
  /\ xfer[t].pc = "recording"
  /\ xfer[t].posts[baseUrl] = "pending"
  /\ \/ /\ transaction_history' =
             [transaction_history EXCEPT
                ![baseUrl] = @ (+) SetToBag({TransactionData(xfer[t])})]
        /\ xfer' = [xfer EXCEPT ![t] = AfterPost(@, baseUrl, TRUE)]
     \/ /\ xfer' = [xfer EXCEPT ![t] = AfterPost(@, baseUrl, FALSE)]
        /\ UNCHANGED transaction_history
  /\ UNCHANGED <<lite_profile, bank_account, cache, refresh, made, pre,
                 issued>>

\* as TransferRecorded, but the cached profiles are dropped
TransferRecorded_Evicts(t) ==
  /\ xfer[t].pc = "recording"
  /\ AllSettled(xfer[t].posts)
  /\ xfer' = [xfer EXCEPT ![t] = Return(@, LogSuccessful)]
  /\ ifscCache' = EmptyMap
  /\ UNCHANGED <<stores, apiByIfsc, refresh, made, pre, issued>>

\* await Promise.all(fetchPromises) resumes in createTransaction, which
\* returns, and transferMoney logs the success
TransferRecorded(t) ==
  /\ xfer[t].pc = "recording"
  /\ AllSettled(xfer[t].posts)
  /\ xfer' = [xfer EXCEPT ![t] = Return(@, LogSuccessful)]
  /\ UNCHANGED <<stores, cache, refresh, made, pre, issued>>

(* --------------------------- specifications --------------------------- *)
RequestIfscs == Ifscs \cup {Unknown}

Refreshing ==
  \/ FetchIFSCs
  \/ \E baseUrl \in ReceiverStores : FetchFulfilled(baseUrl)
  \/ \E baseUrl \in ReceiverStores : FetchRejected(baseUrl)
  \/ FetchIFSCsReturns

\* a store call of transfer t settles and the transfer runs to its next await
Step(t) ==
  \/ SenderValidated(t)
  \/ ReceiverValidated(t)
  \/ DebitGet(t)
  \/ DebitPatch(t)
  \/ CreditGet(t)
  \/ CreditPatch(t)
  \/ RollbackGet(t)
  \/ RollbackPatch(t)
  \/ \E baseUrl \in ReceiverStores : PostSettles(t, baseUrl)
  \/ TransferRecorded(t)

Transferring == \E t \in Procs : Step(t)

Next ==
  \/ Refreshing
  \/ \E sa \in Accts, si \in RequestIfscs, ra \in Accts, ri \in RequestIfscs,
        amount \in 1..MaxAmount :
       TransferMoney(sa, si, ra, ri, amount)
  \/ Transferring

\* one caller that awaits every call before it makes the next
Spec == Init /\ [][Next]_vars


\* a caller that refreshes and then keeps two transfers of one sender in
\* flight, over stores whose directories are complete and whose accounts
\* are active
InitConcurrent ==
  /\ Init
  /\ \A s \in ReceiverStores : Len(lite_profile[s]) = 1
  /\ \A s \in ReceiverStores : \A i \in DOMAIN lite_profile[s] :
        lite_profile[s][i].ifsc_code \in Ifscs
  /\ \A s \in Stores : \A d \in DOMAIN bank_account[s] :
        bank_account[s][d].acct_status = "active"

NextConcurrent ==
  \/ Refreshing
  \/ \E sa \in Accts, si \in RequestIfscs, ra \in Accts, ri \in RequestIfscs,
        amount \in 1..MaxAmount :
       TransferMoneyFirst(sa, si, ra, ri, amount)
  \/ \E ra \in Accts, ri \in RequestIfscs, amount \in 1..MaxAmount :
       TransferMoneyOverlapping(ra, ri, amount)
  \/ Transferring

SpecConcurrent == InitConcurrent /\ [][NextConcurrent]_vars

\* a caller that only refreshes, while the stores' directories lose documents
NextRefreshing ==
  \/ Refreshing
  \/ \E baseUrl \in ReceiverStores : DirectoryShrinks(baseUrl)

SpecRefreshing == Init /\ [][NextRefreshing]_vars

\* the caller that awaits every call, over the same stores, when every store
\* call of a transfer settles: a transfer that awaits a call is resumed
SpecSettling ==
  InitConcurrent /\ [][Next]_vars /\ \A t \in Procs : WF_vars(Step(t))

(* ------------------------------ properties ---------------------------- *)
Called(t) == xfer[t].pc # "idle"
Done(t) == xfer[t].pc = "done"

\* the documents of a collection that carry an account number
DocsOf(collections, url, acct) ==
  {d \in DOMAIN collections[url] : collections[url][d].acct_number = acct}

\* the routing code cached for an account differs from the one supplied, or
\* the account has no cached entry
RoutingMismatch(c, acct, ifsc) ==
  \/ acct \notin DOMAIN c
  \/ c[acct].ifscCode # ifsc

\* the sender's record: <<store, document id>>
SenderRecords(t) ==
  {<<senderApi, d>> :
     d \in DocsOf(pre[t].bank_account, senderApi, xfer[t].senderAcct)}

\* the receiver's record in the store its cached routing code resolves to
ReceiverRecords(t) ==
  LET c == pre[t].ifscCache
      m == pre[t].apiByIfsc
      a == xfer[t].receiverAcct
  IN IF a \in DOMAIN c /\ c[a].ifscCode \in DOMAIN m
     THEN {<<m[c[a].ifscCode], d>> :
             d \in DocsOf(pre[t].bank_account, m[c[a].ifscCode], a)}
     ELSE {}

Bal(collections, rec) == collections[rec[1]][rec[2]].acct_bal

SenderInvalid(t) ==
  \/ SenderRecords(t) = {}
  \/ RoutingMismatch(pre[t].ifscCache, xfer[t].senderAcct, xfer[t].senderIfsc)

ReceiverInvalid(t) ==
  \/ ReceiverRecords(t) = {}
  \/ RoutingMismatch(pre[t].ifscCache, xfer[t].receiverAcct,
                     xfer[t].receiverIfsc)

AbortedInValidation(t) == Done(t) /\ xfer[t].log \in ValidationLogs

Kinds(t) == {issued[t][i].kind : i \in DOMAIN issued[t]}

\* C1: when the sender or the receiver does not pass validation (record
\* missing, routing code mismatch, or a validation GET that fails), the call
\* issues no balance patch, every account record is as it was when the call
\* was made, and the call ends aborted.
C1_FailedValidationMutatesNothing ==
  \A t \in Procs :
    (Called(t) /\ (SenderInvalid(t) \/ ReceiverInvalid(t)
                   \/ xfer[t].log \in ValidationLogs))
      => /\ issued[t] = <<>>
         /\ bank_account = pre[t].bank_account
         /\ Done(t) => xfer[t].log \in ValidationLogs

\* a call aborted because the receiver's record is missing in the store its
\* routing code resolves to, after the sender passed
C1_Witness ==
  /\ AbortedInValidation(1)
  /\ xfer[1].log = LogReceiverNotFound
  /\ ~SenderInvalid(1)
  /\ ReceiverRecords(1) = {}
  /\ xfer[1].receiverAcct \in DOMAIN ifscCache

BothUpdated(t) ==
  /\ xfer[t].senderUpdated = "true"
  /\ xfer[t].receiverUpdated = "true"

\* every receiver store got one POST, which has settled, and holds one more
\* record exactly when its POST was applied
OneAppendPerStore(t) ==
  \A s \in ReceiverStores :
    /\ xfer[t].posts[s] \in {"recorded", "caught"}
    /\ BagCardinality(transaction_history[s]) =
         BagCardinality(pre[t].transaction_history[s])
           + (IF xfer[t].posts[s] = "recorded" THEN 1 ELSE 0)

\* C2 as stated: after a transfer whose debit and credit both succeeded, the
\* sender has its initial balance minus the amount, the receiver its initial
\* balance plus the amount, and each receiver store got one history append.
C2_Original ==
  \A t \in Procs :
    (Done(t) /\ BothUpdated(t))
      => /\ \A r \in SenderRecords(t) :
              Bal(bank_account, r) = Bal(pre[t].bank_account, r) - xfer[t].amount
         /\ \A r \in ReceiverRecords(t) :
              Bal(bank_account, r) = Bal(pre[t].bank_account, r) + xfer[t].amount
         /\ OneAppendPerStore(t)

\* C2 amended: the same, when the sender's record and the receiver's record
\* are two records; when they are one record its balance ends as it began.
C2_CompletedTransferMovesAmount ==
  \A t \in Procs :
    (Done(t) /\ BothUpdated(t))
      => /\ \A r \in SenderRecords(t) :
              Bal(bank_account, r) =
                IF r \in ReceiverRecords(t)
                THEN Bal(pre[t].bank_account, r)
                ELSE Bal(pre[t].bank_account, r) - xfer[t].amount
         /\ \A r \in ReceiverRecords(t) :
              Bal(bank_account, r) =
                IF r \in SenderRecords(t)
                THEN Bal(pre[t].bank_account, r)
                ELSE Bal(pre[t].bank_account, r) + xfer[t].amount
         /\ SenderRecords(t) # {} /\ ReceiverRecords(t) # {}
         /\ OneAppendPerStore(t)

\* a completed transfer between two different records
C2_Witness ==
  /\ Done(1) /\ BothUpdated(1)
  /\ SenderRecords(1) \cap ReceiverRecords(1) = {}
  /\ \E s \in ReceiverStores : xfer[1].posts[s] = "recorded"

CreditFailedAfterDebit(t) ==
  /\ Done(t)
  /\ xfer[t].senderUpdated = "true"
  /\ xfer[t].receiverUpdated = "false"

\* C3: when the debit succeeds, the credit fails and the rollback succeeds,
\* every balance ends as it was before the transfer and the transfer is
\* logged as aborted with the sender rolled back, not as successful.
C3_RollbackRestoresSender ==
  \A t \in Procs :
    (CreditFailedAfterDebit(t) /\ xfer[t].rolledBack = "true")
      => /\ bank_account = pre[t].bank_account
         /\ xfer[t].log = LogRolledBack
         /\ xfer[t].log # LogSuccessful

\* the credit PATCH was rejected and the rollback PATCH was applied
C3_Witness ==
  /\ CreditFailedAfterDebit(1) /\ xfer[1].rolledBack = "true"
  /\ Len(issued[1]) = 3
  /\ issued[1][2].status = "failed"
  /\ issued[1][3].status = "ok"

\* C4 as stated: when the rollback fails too, the transfer ends in an outcome
\* other than the one of a successful rollback, the rollback is attempted
\* once, and the sender's balance stays at initial minus amount.
C4_Original ==
  \A t \in Procs :
    (CreditFailedAfterDebit(t) /\ xfer[t].rolledBack = "false")
      => /\ xfer[t].log # LogRolledBack
         /\ Cardinality({i \in DOMAIN issued[t] :
                           issued[t][i].kind = "rollback"}) <= 1
         /\ \A r \in SenderRecords(t) :
              Bal(bank_account, r) = Bal(pre[t].bank_account, r) - xfer[t].amount

\* C5 as stated: a request for more than the sender's balance is aborted in
\* validation with no patch issued, so a balance that starts at zero or more
\* never goes below zero.
C5_Original ==
  \A t \in Procs :
    Called(t) =>
      \A r \in SenderRecords(t) :
        /\ xfer[t].amount > Bal(pre[t].bank_account, r)
             => /\ issued[t] = <<>>
                /\ Done(t) => xfer[t].log \in ValidationLogs
        /\ Bal(pre[t].bank_account, r) >= 0 => Bal(bank_account, r) >= 0

\* C6: a debit PATCH that succeeds stores the balance its own GET read,
\* minus its amount, whatever the record holds by then: a debit that another
\* transfer applied in between is overwritten.
C6_DebitOverwritesWithItsRead ==
  [][\A t \in Procs :
       (xfer[t].pc = "debitPatch" /\ xfer'[t].senderUpdated = "true")
         => bank_account'[xfer[t].url][xfer[t].docId].acct_bal =
              xfer[t].currentBalance - xfer[t].amount]_vars

\* two transfers of one sender to another account both completed, their
\* debits read the same balance, and the sender lost only one amount
C6_Witness ==
  /\ Done(1) /\ BothUpdated(1)
  /\ Done(2) /\ BothUpdated(2)
  /\ SenderRecords(1) = SenderRecords(2)
  /\ SenderRecords(1) \cap (ReceiverRecords(1) \cup ReceiverRecords(2)) = {}
  /\ issued[1][1].kind = "debit" /\ issued[2][1].kind = "debit"
  /\ issued[1][1].read = issued[2][1].read
  /\ \A r \in SenderRecords(1) :
       /\ Bal(pre[1].bank_account, r) = issued[1][1].read
       /\ Bal(bank_account, r) #
            Bal(pre[1].bank_account, r) - xfer[1].amount - xfer[2].amount

\* C7: once debit and credit have succeeded, whichever history appends fail,
\* no rollback is issued, the balances stay as the two patches left them and
\* the transfer is logged as successful.
C7_FanOutFailureKeepsTransfer ==
  \A t \in Procs :
    (xfer[t].pc \in {"recording", "done"} /\ BothUpdated(t))
      => /\ Kinds(t) = {"debit", "credit"}
         /\ Len(issued[t]) = 2
         /\ \A i \in DOMAIN issued[t] :
              LET p == issued[t][i]
              IN (\A j \in DOMAIN issued[t] :
                    (j > i) => <<issued[t][j].url, issued[t][j].docId>>
                                 # <<p.url, p.docId>>)
                   => bank_account[p.url][p.docId].acct_bal = p.written
         /\ Done(t) => xfer[t].log = LogSuccessful

\* a transfer logged as successful although one of the two appends failed
C7_Witness ==
  /\ Done(1) /\ BothUpdated(1)
  /\ xfer[1].log = LogSuccessful
  /\ Cardinality({s \in ReceiverStores : xfer[1].posts[s] = "caught"}) = 1

\* C8: when the routing code supplied for the sender or for the receiver
\* differs from the cached one, or the account has no cached entry, the call
\* issues no balance patch and ends aborted.
C8_RoutingMismatchAborts ==
  \A t \in Procs :
    (Called(t)
     /\ (\/ RoutingMismatch(pre[t].ifscCache, xfer[t].senderAcct,
                            xfer[t].senderIfsc)
         \/ RoutingMismatch(pre[t].ifscCache, xfer[t].receiverAcct,
                            xfer[t].receiverIfsc)))
      => /\ issued[t] = <<>>
         /\ Done(t) => xfer[t].log \in ValidationLogs

\* the receiver's record was found but its cached routing code is another
C8_Witness ==
  /\ AbortedInValidation(1)
  /\ xfer[1].log = LogReceiverIfsc
  /\ xfer[1].receiverAcct \in DOMAIN ifscCache
  /\ ifscCache[xfer[1].receiverAcct].ifscCode # xfer[1].receiverIfsc
  /\ ReceiverRecords(1) # {}

Inactive(collections, rec) == collections[rec[1]][rec[2]].acct_status # "active"

\* C9 as stated: when the sender's or the receiver's record exists and is
\* not active, the call issues no balance patch and ends aborted.
C9_Original ==
  \A t \in Procs :
    (Called(t)
     /\ \E r \in SenderRecords(t) \cup ReceiverRecords(t) :
          Inactive(pre[t].bank_account, r))
      => /\ issued[t] = <<>>
         /\ Done(t) => xfer[t].log \in ValidationLogs

\* C10: when the debit fails, the call is logged as aborted on the debit, no
\* credit or rollback PATCH and no history POST was issued, and the balances
\* and histories are as they were.
C10_DebitFailureStopsSaga ==
  \A t \in Procs :
    (Done(t) /\ xfer[t].senderUpdated = "false")
      => /\ xfer[t].log = LogDebitFailed
         /\ Kinds(t) \subseteq {"debit"}
         /\ Len(issued[t]) <= 1
         /\ \A i \in DOMAIN issued[t] : issued[t][i].status = "failed"
         /\ \A s \in ReceiverStores : xfer[t].posts[s] = "none"
         /\ transaction_history = pre[t].transaction_history
         /\ bank_account = pre[t].bank_account

\* the debit PATCH was rejected by the sender store
C10_Witness ==
  /\ Done(1) /\ xfer[1].senderUpdated = "false"
  /\ Len(issued[1]) = 1
  /\ issued[1][1].status = "failed"

\* C11 as stated: two transfers that end for different causes never return
\* the same value to their caller.
C11_Original ==
  \A t \in Procs : \A u \in Procs :
    (Done(t) /\ Done(u) /\ xfer[t].log # xfer[u].log)
      => xfer[t].result # xfer[u].result

PatchPcs == {"debitPatch", "creditPatch", "rollbackPatch"}

\* the PATCH that transfer t awaits is applied in this step
PatchApplied(t) ==
  /\ xfer[t].pc \in PatchPcs
  /\ issued[t][Len(issued[t])].status = "pending"
  /\ issued'[t][Len(issued[t])].status = "ok"

\* C12: a balance PATCH that is applied (debit, credit or rollback) leaves
\* every record but the targeted one as it was, and in the targeted record
\* every field but acct_bal (account number, status, customer id, name).
C12_PatchTouchesOnlyBalance ==
  [][\A t \in Procs :
       PatchApplied(t) =>
         \A s \in Stores :
           /\ DOMAIN bank_account'[s] = DOMAIN bank_account[s]
           /\ \A d \in DOMAIN bank_account[s] :
                IF <<s, d>> = <<xfer[t].url, xfer[t].docId>>
                THEN /\ DOMAIN bank_account'[s][d] = DOMAIN bank_account[s][d]
                     /\ \A k \in DOMAIN bank_account[s][d] \ {"acct_bal"} :
                          bank_account'[s][d][k] = bank_account[s][d][k]
                     /\ bank_account'[s][d].acct_bal = xfer[t].newBalance
                ELSE bank_account'[s][d] = bank_account[s][d]]_vars

\* the debit and the rollback were applied to an inactive sender's record,
\* which still carries its number, status, customer id and name
C12_Witness ==
  /\ Done(1)
  /\ Len(issued[1]) = 3
  /\ issued[1][1].status = "ok"
  /\ issued[1][3].kind = "rollback" /\ issued[1][3].status = "ok"
  /\ \A r \in SenderRecords(1) :
       /\ bank_account[r[1]][r[2]].acct_status = "inactive"
       /\ bank_account[r[1]][r[2]].acct_number = xfer[1].senderAcct
       /\ bank_account[r[1]][r[2]].cust_id = xfer[1].senderAcct
       /\ bank_account[r[1]][r[2]].acct_name = xfer[1].senderAcct

\* the account numbers a store's directory lists
Listed(s) ==
  {lite_profile[s][i].acct_number : i \in DOMAIN lite_profile[s]} \ {Missing}

\* the last directory document of a store that carries an account number
LastDocOf(s, a) ==
  LET is == {i \in DOMAIN lite_profile[s] : lite_profile[s][i].acct_number = a}
  IN lite_profile[s][CHOOSE i \in is : \A j \in is : j <= i]

\* the cache entry a directory document yields
EntryOf(doc) ==
  [ifscCode |-> IF doc.ifsc_code = Missing THEN Unknown ELSE doc.ifsc_code,
   name |-> IF doc.name = Missing THEN Unknown ELSE doc.name]

\* C13: whichever receiver stores fail to answer, all of them included,
\* fetchIFSCs returns once every fetch has settled, no fetch is left rejected,
\* and when it returns the cache holds an entry for every account that the
\* directory of an answering store lists.
C13_RefreshSurvivesFailures ==
  [][/\ (fetching /\ AllSettled(fetchPromises)) => ENABLED FetchIFSCsReturns
     /\ (fetching /\ ~fetching')
          => \A s \in ReceiverStores :
               /\ fetchPromises[s] \in {"fulfilled", "caught"}
               /\ fetchPromises[s] = "fulfilled"
                    => \A a \in Listed(s) : a \in DOMAIN ifscCache']_vars

\* a refresh has returned in which the first store answered and the second,
\* which lists a2, did not
C13_Witness ==
  /\ ~fetching
  /\ made > 0
  /\ xfer[1].pc = "idle"
  /\ DOMAIN ifscCache = Listed("bankA")
  /\ Listed("bankB") \ DOMAIN ifscCache # {}

\* the directory fetch of store s is answered in this step
Answered(s) ==
  /\ fetchPromises[s] = "pending"
  /\ fetchPromises'[s] = "fulfilled"

\* C14: the cache is a map with one entry per account number, and a
\* directory answer overwrites the entries of the accounts it lists, so an
\* account that several stores list ends with the entry of the store whose
\* answer was processed last, whatever the order of the answers.
C14_LastResponseWins ==
  [][\A s \in ReceiverStores :
       Answered(s) =>
         /\ DOMAIN ifscCache' = DOMAIN ifscCache \cup Listed(s)
         /\ \A a \in Listed(s) : ifscCache'[a] = EntryOf(LastDocOf(s, a))
         /\ \A a \in DOMAIN ifscCache \ Listed(s) :
              ifscCache'[a] = ifscCache[a]]_vars

\* both stores list a1 with different routing codes, both answered in this
\* refresh, and a1 is cached with the code of the first store, whose answer
\* came last
C14_Witness ==
  /\ fetching
  /\ \A s \in ReceiverStores : fetchPromises[s] = "fulfilled"
  /\ \A s \in ReceiverStores : "a1" \in Listed(s)
  /\ EntryOf(LastDocOf("bankA", "a1")) # EntryOf(LastDocOf("bankB", "a1"))
  /\ ifscCache["a1"] = EntryOf(LastDocOf("bankA", "a1"))

\* C15: the routing cache changes only in a step that processes a directory
\* answer of a refresh; no step of a transfer (validation, balance update,
\* history append, return) adds, removes or changes an entry.
C15_OnlyRefreshWritesCache ==
  [][/\ (<<ifscCache, apiByIfsc>>' # <<ifscCache, apiByIfsc>>)
          => \E s \in ReceiverStores : Answered(s)
     /\ (xfer' # xfer) => <<ifscCache, apiByIfsc>>' = <<ifscCache, apiByIfsc>>]_vars

\* a transfer ran from validation to its history appends and the cache is
\* the one it started with
C15_Witness ==
  /\ Done(1)
  /\ xfer[1].log = LogSuccessful
  /\ \A s \in ReceiverStores : xfer[1].posts[s] = "recorded"
  /\ ifscCache = pre[1].ifscCache /\ apiByIfsc = pre[1].apiByIfsc
  /\ {xfer[1].senderAcct, xfer[1].receiverAcct} \subseteq DOMAIN ifscCache

CountOf(t, kind) ==
  Cardinality({i \in DOMAIN issued[t] : issued[t][i].kind = kind})

\* C16: a credit (its GET, then its PATCH) is issued only when the debit
\* PATCH of the same transfer was issued before it and has been applied:
\* never while the debit is pending and never after the debit failed.
C16_CreditAfterDebitSettled ==
  \A t \in Procs :
    /\ xfer[t].pc \in {"creditGet", "creditPatch"}
         => /\ xfer[t].senderUpdated = "true"
            /\ Len(issued[t]) >= 1
            /\ issued[t][1].kind = "debit" /\ issued[t][1].status = "ok"
    /\ \A i \in DOMAIN issued[t] :
         issued[t][i].kind = "credit"
           => /\ i = 2
              /\ issued[t][1].kind = "debit" /\ issued[t][1].status = "ok"

\* the credit PATCH is pending after the debit PATCH was applied
C16_Witness ==
  /\ xfer[1].pc = "creditPatch"
  /\ Len(issued[1]) = 2
  /\ issued[1][2].kind = "credit" /\ issued[1][2].status = "pending"

AllRecords == {<<s, d>> : s \in Stores, d \in {"dA1", "dB1", "dB2"}}

RECURSIVE SumOver(_, _)
SumOver(collections, recs) ==
  IF recs = {} THEN 0
  ELSE LET r == CHOOSE r \in recs : TRUE
       IN Bal(collections, r) + SumOver(collections, recs \ {r})

\* the sum of the balances of all account records
Total(collections) ==
  SumOver(collections,
          {r \in AllRecords : r[2] \in DOMAIN collections[r[1]]})

\* the amount has moved from the sender's record to the receiver's record
\* and no other record has changed
Moved(t) ==
  /\ SenderRecords(t) # {} /\ ReceiverRecords(t) # {}
  /\ SenderRecords(t) \cap ReceiverRecords(t) = {}
  /\ \A s \in Stores : \A d \in DOMAIN bank_account[s] :
       bank_account[s][d].acct_bal =
         pre[t].bank_account[s][d].acct_bal
           + (IF <<s, d>> \in SenderRecords(t) THEN -xfer[t].amount
              ELSE IF <<s, d>> \in ReceiverRecords(t) THEN xfer[t].amount
              ELSE 0)

\* C17: when a transfer run alone has ended, and not with a failed rollback,
\* either the amount has moved from the sender to the receiver or every
\* balance is what it was when the transfer was called; the sum of the
\* balances is what it was.
C17_AllOrNothing ==
  \A t \in Procs :
    (Done(t) /\ xfer[t].rolledBack # "false")
      => /\ Moved(t) \/ bank_account = pre[t].bank_account
         /\ Total(bank_account) = Total(pre[t].bank_account)

\* a transfer has ended with the amount moved between two records
C17_Witness ==
  /\ Done(1)
  /\ xfer[1].rolledBack = "unset"
  /\ Moved(1)
  /\ bank_account # pre[1].bank_account

\* C18: a transfer issues at most one debit, one credit and one rollback
\* PATCH, and a step that failed is followed by its failure branch: after a
\* failed debit the transfer has ended, after a failed credit it is rolling
\* back or has ended, after a failed rollback it has ended.
C18_NoStepIsRetried ==
  \A t \in Procs :
    /\ \A kind \in {"debit", "credit", "rollback"} : CountOf(t, kind) <= 1
    /\ Len(issued[t]) <= 3
    /\ xfer[t].senderUpdated = "false"
         => Done(t) /\ xfer[t].log = LogDebitFailed
    /\ xfer[t].receiverUpdated = "false"
         => /\ xfer[t].pc \in {"rollbackGet", "rollbackPatch", "done"}
            /\ Done(t) => xfer[t].log = LogRolledBack
    /\ xfer[t].rolledBack = "false" => Done(t) /\ xfer[t].log = LogRolledBack

\* the credit PATCH and then the rollback PATCH were rejected, each once
C18_Witness ==
  /\ Done(1)
  /\ Len(issued[1]) = 3
  /\ issued[1][2].kind = "credit" /\ issued[1][2].status = "failed"
  /\ issued[1][3].kind = "rollback" /\ issued[1][3].status = "failed"

\* Debiting, Crediting, CompensatingDebit and the recording that follows
SagaPcs ==
  {"debitGet", "debitPatch", "creditGet", "creditPatch", "rollbackGet",
   "rollbackPatch", "recording"}

\* Completed, Aborted(DebitFailed), CompensationSucceeded, CompensationFailed
Terminal(t) ==
  /\ Done(t)
  /\ \/ xfer[t].log = LogSuccessful /\ BothUpdated(t)
     \/ xfer[t].log = LogDebitFailed /\ xfer[t].senderUpdated = "false"
     \/ xfer[t].log = LogRolledBack /\ xfer[t].rolledBack \in {"true", "false"}

\* C19: when every store call settles, a transfer that has begun its debit
\* reaches an end: completed, aborted on the debit, or rolled back with the
\* rollback applied or failed.
C19_SagaRunsToATerminalState ==
  \A t \in Procs : (xfer[t].pc \in SagaPcs) ~> Terminal(t)

\* a transfer ended after its debit was applied, its credit PATCH was
\* rejected and the GET of its rollback failed
C19_Witness ==
  /\ Terminal(1)
  /\ xfer[1].rolledBack = "false"
  /\ Len(issued[1]) = 2
  /\ issued[1][2].status = "failed"

Posted(t) == \E s \in ReceiverStores : xfer[t].posts[s] # "none"

\* C20: a history POST is issued only by a transfer whose debit and credit
\* PATCH were both applied, after the credit PATCH settled; a transfer that
\* is aborted in validation, on its debit, or rolled back issues none and
\* leaves every history as it was.
C20_HistoryOnlyAfterBothUpdates ==
  \A t \in Procs :
    /\ Posted(t)
         => /\ BothUpdated(t)
            /\ Len(issued[t]) = 2
            /\ issued[t][1].kind = "debit" /\ issued[t][1].status = "ok"
            /\ issued[t][2].kind = "credit" /\ issued[t][2].status = "ok"
    /\ (Called(t) /\ ~(xfer[t].pc \in {"recording", "done"} /\ BothUpdated(t)))
         => /\ ~Posted(t)
            /\ transaction_history = pre[t].transaction_history
    /\ (Done(t) /\ xfer[t].log # LogSuccessful) => ~Posted(t)

\* one append of a completed transfer is applied while the other is pending
C20_Witness ==
  /\ xfer[1].pc = "recording"
  /\ \E s \in ReceiverStores : xfer[1].posts[s] = "recorded"
  /\ \E s \in ReceiverStores : xfer[1].posts[s] = "pending"
  /\ transaction_history # pre[1].transaction_history

\* C21: fetchIFSCs returns only when the directory fetch of every receiver
\* store has settled, and a transfer is logged as successful only when the
\* history POST to every receiver store has settled, in whatever order the
\* calls settle; while a call is pending its operation has not finished.
C21_ParallelCallsAreJoined ==
  [][/\ (fetching /\ ~fetching')
          => \A s \in ReceiverStores :
               fetchPromises[s] \in {"fulfilled", "caught"}
     /\ (\E s \in ReceiverStores : fetchPromises[s] = "pending") => fetching
     /\ \A t \in Procs :
          /\ (xfer[t].pc # "done" /\ xfer'[t].pc = "done"
                 /\ xfer'[t].log = LogSuccessful)
               => \A s \in ReceiverStores :
                    xfer[t].posts[s] \in {"recorded", "caught"}
          /\ (\E s \in ReceiverStores : xfer[t].posts[s] = "pending")
               => xfer[t].pc = "recording"]_vars

\* the second store has answered, the first has not, and fetchIFSCs has not
\* returned
C21_Witness ==
  /\ fetching
  /\ fetchPromises["bankB"] = "fulfilled"
  /\ fetchPromises["bankA"] = "pending"
  /\ Listed("bankB") \subseteq DOMAIN ifscCache

SenderLogs == {LogSenderNotFound, LogSenderIfsc}

\* the sender fails one of: existence, routing code, active status,
\* sufficient funds (the request carries no display name)
SenderStageFails(t) ==
  \/ SenderRecords(t) = {}
  \/ RoutingMismatch(pre[t].ifscCache, xfer[t].senderAcct, xfer[t].senderIfsc)
  \/ \E r \in SenderRecords(t) : Inactive(pre[t].bank_account, r)
  \/ \E r \in SenderRecords(t) : xfer[t].amount > Bal(pre[t].bank_account, r)

\* the receiver fails one of: existence, routing code, active status
ReceiverStageFails(t) ==
  \/ ReceiverRecords(t) = {}
  \/ RoutingMismatch(pre[t].ifscCache, xfer[t].receiverAcct,
                     xfer[t].receiverIfsc)
  \/ \E r \in ReceiverRecords(t) : Inactive(pre[t].bank_account, r)

\* C22 as stated: the checks of an account run in the order existence,
\* routing code, display name, active status, sufficient funds and stop at
\* the first that fails: a sender whose record is missing is aborted for
\* existence, one with a wrong routing code at the sender's checks, and a
\* request whose sender or receiver fails any check is aborted in validation
\* with no patch issued.
C22_Original ==
  \A t \in Procs :
    Done(t) =>
      /\ SenderRecords(t) = {} => xfer[t].log = LogSenderNotFound
      /\ (SenderRecords(t) # {}
            /\ RoutingMismatch(pre[t].ifscCache, xfer[t].senderAcct,
                               xfer[t].senderIfsc))
           => xfer[t].log \in SenderLogs
      /\ (SenderStageFails(t) \/ ReceiverStageFails(t))
           => /\ xfer[t].log \in ValidationLogs
              /\ issued[t] = <<>>

\* C23 as stated: after a refresh every cached account resolves, through
\* its cached routing code, to a store whose directory lists it, and a
\* credit is never sent to a store whose directory does not list the
\* receiver.
C23_Original ==
  /\ ~fetching
       => \A a \in DOMAIN ifscCache :
            /\ ifscCache[a].ifscCode \in DOMAIN apiByIfsc
            /\ a \in Listed(apiByIfsc[ifscCache[a].ifscCode])
  /\ \A t \in Procs : \A i \in DOMAIN issued[t] :
       issued[t][i].kind = "credit"
         => xfer[t].receiverAcct \in Listed(issued[t][i].url)

\* the records whose balance differs from the one at the call of transfer t
Changed(t) ==
  {r \in AllRecords :
     /\ r[2] \in DOMAIN bank_account[r[1]]
     /\ Bal(bank_account, r) # Bal(pre[t].bank_account, r)}

\* C24: in every state of a transfer run alone, whatever its outcome, the
\* only records whose balance differs from the one at the call are the
\* sender's record in the sender store and the receiver's record in the
\* store resolved for it: at most two; no record is added or deleted.
C24_OnlySenderAndReceiverChange ==
  \A t \in Procs :
    Called(t) =>
      /\ \A s \in Stores :
           DOMAIN bank_account[s] = DOMAIN pre[t].bank_account[s]
      /\ Changed(t) \subseteq SenderRecords(t) \cup ReceiverRecords(t)
      /\ Cardinality(Changed(t)) <= 2

\* a transfer ended with a failed rollback: the sender's record is the one
\* record that changed
C24_Witness ==
  /\ Done(1)
  /\ xfer[1].rolledBack = "false"
  /\ Changed(1) # {}
  /\ Changed(1) = SenderRecords(1)
  /\ ReceiverRecords(1) \ SenderRecords(1) # {}

\* C25: every cached account carries a routing code that apiByIfsc maps to a
\* store, in every state, so the lookup of a cached account's store never
\* finds no store.
C25_CachedCodeIsMapped ==
  \A a \in DOMAIN ifscCache :
    /\ ifscCache[a].ifscCode \in DOMAIN apiByIfsc
    /\ apiByIfsc[ifscCache[a].ifscCode] \in ReceiverStores

\* an account whose directory document has no ifsc_code is cached with
\* 'unknown', which is mapped to its store
C25_Witness ==
  /\ ~fetching
  /\ "a1" \in DOMAIN ifscCache
  /\ ifscCache["a1"].ifscCode = Unknown
  /\ Unknown \in DOMAIN apiByIfsc
  /\ apiByIfsc[Unknown] = "bankA"

\* fetchIFSCs returns in this step
Returns == fetching /\ ~fetching'

\* a store that answered in the running refresh lists the account
AnsweredListing(a) ==
  \E s \in ReceiverStores : fetchPromises[s] = "fulfilled" /\ a \in Listed(s)

\* C26 as stated: an entry cached by an earlier refresh is present and
\* unchanged after a later refresh in which the store that cached it failed
\* to answer or no longer lists the account.
C26_Original ==
  [][Returns =>
       \A a \in DOMAIN preFetch.ifscCache :
         LET o == preFetch.cachedFrom[a]
         IN (fetchPromises[o] = "caught" \/ a \notin Listed(o))
              => /\ a \in DOMAIN ifscCache'
                 /\ ifscCache'[a] = preFetch.ifscCache[a]]_vars

\* C26 amended: no step removes a cache entry; an entry cached by an earlier
\* refresh is present after a later refresh, and unchanged unless a store
\* that answered in the later refresh lists the account, in which case it is
\* the entry of such a store.
C26_RefreshOnlyAddsOrOverwrites ==
  [][/\ DOMAIN ifscCache \subseteq DOMAIN ifscCache'
     /\ Returns =>
          \A a \in DOMAIN preFetch.ifscCache :
            /\ a \in DOMAIN ifscCache'
            /\ IF AnsweredListing(a)
               THEN \E s \in ReceiverStores :
                      /\ fetchPromises[s] = "fulfilled" /\ a \in Listed(s)
                      /\ ifscCache'[a] = EntryOf(LastDocOf(s, a))
               ELSE ifscCache'[a] = preFetch.ifscCache[a]]_vars

\* every fetch of a later refresh has settled, the store that cached an
\* account answered without listing it any more, and the entry is as it was
C26_Witness ==
  /\ fetching
  /\ \A s \in ReceiverStores : fetchPromises[s] \in {"fulfilled", "caught"}
  /\ \E a \in DOMAIN preFetch.ifscCache :
       /\ fetchPromises[preFetch.cachedFrom[a]] = "fulfilled"
       /\ a \notin Listed(preFetch.cachedFrom[a])
       /\ a \in DOMAIN ifscCache
       /\ ifscCache[a] = preFetch.ifscCache[a]

====
